---- MODULE Spec2Model ----
(***************************************************************************)
(* Label transfer (Single_Cell_Fuzzy_Labels/transfer.py) and category      *)
(* mapping (Single_Cell_Fuzzy_Labels/Harmonisation.py).                    *)
(*                                                                         *)
(* Conventions.  Embedding vectors are one-dimensional with integer        *)
(* coordinates.  A squared distance or inner product is an integer number  *)
(* of units of the constant 1e-6 that knn_weighted_voting adds to every    *)
(* distance, so 1/(d + 1e-6) is the exact rational 1/(d + Epsilon) of      *)
(* these units; a weight is kept as an integer multiple of 1/WeightScale.  *)
(* Python positions are 0-based and a negative position counts from the    *)
(* end; TLA+ sequences are 1-based, see PyIndex.  An Optional[int] is <<>> *)
(* for None and <<v>> for the integer v.  A dict or Counter is the         *)
(* sequence of its items in insertion order.  The timed argument of        *)
(* labels() only pairs the returned list with the elapsed time and is left *)
(* out.  index.search is the exhaustive search of a flat faiss index, the  *)
(* same on CPU and GPU, and puts the lower reference position first when   *)
(* two distances are equal.                                                *)
(***************************************************************************)
EXTENDS Integers, Sequences, FiniteSets, TLC

VARIABLES
    \* labels(): arguments
    embedding_array_reference, embedding_array_query, reference_labels,
    k, use_gpu, batch_size, distance_metric, label_consensus,
    \* labels(): locals
    pc, res, index, batches, i, batch_query, distances, indices,
    centroids, query_labels, raised,
    \* history of one labels() call
    searches, centroid_calls,
    \* caller of labels(): the batch sizes still to run and the returned lists
    todo, returned,
    \* map_labels_to_categories(): arguments and locals
    label_list, label_dict, label_to_category, mapped_list

call_vars == <<embedding_array_reference, embedding_array_query, reference_labels,
               k, use_gpu, batch_size, distance_metric, label_consensus,
               pc, res, index, batches, i, batch_query, distances, indices,
               centroids, query_labels, raised, searches, centroid_calls>>
caller_vars == <<todo, returned>>
map_vars == <<label_list, label_dict, label_to_category, mapped_list>>
vars == <<call_vars, caller_vars, map_vars>>

----------------------------------------------------------------------------
(* Bounds and input domains *)

MaxRef == 2
MaxQuery == 2
Coords == {0, 1, 2}
QueryCoords == {1, 2}
Labels == {"A", "B"}
Metrics == {"L2", "IP", "COSINE"}
Consensus == {"majority_voting", "weighted_voting", "centroid_based", "no_such_consensus"}

None == <<>>
Some(v) == <<v>>

SeqsUpTo(S, lo, hi) == UNION {[1..n -> S] : n \in lo..hi}

----------------------------------------------------------------------------
(* Python and numpy primitives *)

\* seq[p] of a Python list, p a 0-based or negative position in range
PyIndex(seq, p) == IF p >= 0 THEN seq[p + 1] ELSE seq[Len(seq) + p + 1]

\* arr[lo : lo + n] for lo >= 0 and n >= 1
PySliceFrom(arr, lo, n) ==
    LET hi == IF lo + n > Len(arr) THEN Len(arr) ELSE lo + n
    IN  IF lo >= hi THEN <<>> ELSE SubSeq(arr, lo + 1, hi)

\* the values of range(0, stop, step), step # 0
RECURSIVE PyRangeFrom(_, _, _)
PyRangeFrom(start, stop, step) ==
    IF (step > 0 /\ start < stop) \/ (step < 0 /\ start > stop)
    THEN <<start>> \o PyRangeFrom(start + step, stop, step)
    ELSE <<>>

Abs(x) == IF x < 0 THEN 0 - x ELSE x

----------------------------------------------------------------------------
(* dict / Counter as the sequence of items [key, val] in insertion order *)

HasKey(items, key) == \E j \in DOMAIN items : items[j].key = key

\* items[key] = items.get(key, 0) + w : a new key goes last, an old one keeps its place
DictAdd(items, key, w) ==
    IF HasKey(items, key)
    THEN [j \in DOMAIN items |->
            IF items[j].key = key
            THEN [key |-> key, val |-> items[j].val + w]
            ELSE items[j]]
    ELSE Append(items, [key |-> key, val |-> w])

\* Counter(keys): one count per key, keys in order of first occurrence
RECURSIVE CounterFrom(_, _, _)
CounterFrom(keys, j, items) ==
    IF j > Len(keys) THEN items
    ELSE CounterFrom(keys, j + 1, DictAdd(items, keys[j], 1))

Counter(keys) == CounterFrom(keys, 1, <<>>)

\* max(items, key = val): the scan keeps the earlier item on an equal val
RECURSIVE PyMaxFrom(_, _, _)
PyMaxFrom(items, j, best) ==
    IF j > Len(items) THEN best
    ELSE PyMaxFrom(items, j + 1, IF items[j].val > items[best].val THEN j ELSE best)

\* the same scan keeping the later item on an equal val
RECURSIVE PyMaxLastFrom(_, _, _)
PyMaxLastFrom(items, j, best) ==
    IF j > Len(items) THEN best
    ELSE PyMaxLastFrom(items, j + 1, IF items[j].val >= items[best].val THEN j ELSE best)

----------------------------------------------------------------------------
(* knn_majority_voting *)

NeighborLabels(ind, ref_labels) == [j \in DOMAIN ind |-> PyIndex(ref_labels, ind[j])]

MostCommonLast(label_counts) == label_counts[PyMaxLastFrom(label_counts, 2, 1)].key

\* label_counts.most_common(1)[0][0] : heapq.nlargest(1, items) is max(items, key = count)
MostCommon(label_counts) == label_counts[PyMaxFrom(label_counts, 2, 1)].key

MajorityLabel(ind, ref_labels) == MostCommon(Counter(NeighborLabels(ind, ref_labels)))

knn_majority_voting(inds, ref_labels) ==
    [q \in DOMAIN inds |-> MajorityLabel(inds[q], ref_labels)]

----------------------------------------------------------------------------
(* knn_weighted_voting *)

Epsilon == 1

\* the largest squared distance or inner product of two coordinates
MaxDistance == CHOOSE m \in {a * b : a, b \in Coords} : \A a, b \in Coords : a * b <= m

RECURSIVE Factorial(_)
Factorial(n) == IF n <= 1 THEN 1 ELSE n * Factorial(n - 1)

\* a common multiple of every d + Epsilon, d \in 0..MaxDistance
WeightScale == Factorial(MaxDistance + Epsilon)

\* the distance faiss reports in a slot that has no neighbour (+/- the largest float)
NoNeighbourDistance == 0 - 1

\* 1 / (d + 1e-6), in units of 1/WeightScale; the weight of an empty slot is
\* below the rounding error of every sum it is added to
Weight(d) == IF d = NoNeighbourDistance THEN 0 ELSE WeightScale \div (d + Epsilon)

RECURSIVE WeightedVotesFrom(_, _, _, _, _)
WeightedVotesFrom(ind, dist, ref_labels, j, weighted_votes) ==
    IF j > Len(ind) \/ j > Len(dist) THEN weighted_votes
    ELSE WeightedVotesFrom(ind, dist, ref_labels, j + 1,
            DictAdd(weighted_votes, PyIndex(ref_labels, ind[j]), Weight(dist[j])))

WeightedVotes(ind, dist, ref_labels) == WeightedVotesFrom(ind, dist, ref_labels, 1, <<>>)

HeaviestLast(weighted_votes) == weighted_votes[PyMaxLastFrom(weighted_votes, 2, 1)].key

\* max(weighted_votes, key = weighted_votes.get)
Heaviest(weighted_votes) == weighted_votes[PyMaxFrom(weighted_votes, 2, 1)].key

WeightedLabel(ind, dist, ref_labels) == Heaviest(WeightedVotes(ind, dist, ref_labels))

Min(a, b) == IF a < b THEN a ELSE b

knn_weighted_voting(inds, dists, ref_labels) ==
    [q \in 1..Min(Len(inds), Len(dists)) |-> WeightedLabel(inds[q], dists[q], ref_labels)]

----------------------------------------------------------------------------
(* calculate_centroids, assign_labels_by_nearest_centroid *)

\* a centroid label_sums[label] / count is kept as the pair sum, count
RECURSIVE LabelSumsFrom(_, _, _, _)
LabelSumsFrom(ref_data, ref_labels, j, label_sums) ==
    IF j > Len(ref_data) \/ j > Len(ref_labels) THEN label_sums
    ELSE LabelSumsFrom(ref_data, ref_labels, j + 1,
            DictAdd(label_sums, ref_labels[j], ref_data[j]))

calculate_centroids(ref_data, ref_labels) ==
    LET label_counts == Counter(ref_labels)
        label_sums == LabelSumsFrom(ref_data, ref_labels, 1, <<>>)
        SumOf(label) == label_sums[CHOOSE j \in DOMAIN label_sums : label_sums[j].key = label].val
    IN  [j \in DOMAIN label_counts |->
            [key |-> label_counts[j].key,
             sum |-> SumOf(label_counts[j].key),
             count |-> label_counts[j].val]]

\* norm(point - c.sum / c.count) < norm(point - d.sum / d.count)
NearerCentroid(point, c, d) ==
    Abs(point * c.count - c.sum) * d.count < Abs(point * d.count - d.sum) * c.count

\* min(centroids.keys(), key = norm): the scan keeps the earlier key on an equal norm
RECURSIVE PyMinCentroidFrom(_, _, _, _)
PyMinCentroidFrom(point, cents, j, best) ==
    IF j > Len(cents) THEN best
    ELSE PyMinCentroidFrom(point, cents, j + 1,
            IF NearerCentroid(point, cents[j], cents[best]) THEN j ELSE best)

ClosestLabel(point, cents) == cents[PyMinCentroidFrom(point, cents, 2, 1)].key

assign_labels_by_nearest_centroid(query_data, cents) ==
    [q \in DOMAIN query_data |-> ClosestLabel(query_data[q], cents)]

----------------------------------------------------------------------------
(* faiss flat index: add and exhaustive k-nearest search *)

\* squared Euclidean distance of IndexFlatL2, inner product of IndexFlatIP
Distance(metric, a, b) == IF metric = "IP" THEN a * b ELSE (a - b) * (a - b)

\* reference position a ranks before position b for the query point: smaller
\* distance (L2) or larger product (IP), the lower position first on a tie
RanksBefore(idx, point, a, b) ==
    LET da == Distance(idx.metric, point, idx.vectors[a + 1])
        db == Distance(idx.metric, point, idx.vectors[b + 1])
    IN  IF da = db THEN a < b
        ELSE IF idx.metric = "IP" THEN da > db ELSE da < db

RECURSIVE Ranked(_, _, _)
Ranked(idx, point, S) ==
    IF S = {} THEN <<>>
    ELSE LET best == CHOOSE a \in S : \A b \in S \ {a} : RanksBefore(idx, point, a, b)
         IN  <<best>> \o Ranked(idx, point, S \ {best})

\* one row of index.search(batch, kk): kk positions, -1 where the index has
\* fewer than kk vectors
SearchIndices(idx, point, kk) ==
    LET order == Ranked(idx, point, 0..(Len(idx.vectors) - 1))
    IN  [j \in 1..kk |-> IF j <= Len(order) THEN order[j] ELSE 0 - 1]

SearchDistances(idx, point, kk) ==
    LET order == Ranked(idx, point, 0..(Len(idx.vectors) - 1))
    IN  [j \in 1..kk |->
            IF j <= Len(order)
            THEN Distance(idx.metric, point, idx.vectors[order[j] + 1])
            ELSE NoNeighbourDistance]

----------------------------------------------------------------------------
(* labels(): one call, statement by statement *)

Unbound == <<>>
NoIndex == [kind |-> "unbound", metric |-> "unbound", vectors |-> <<>>]
NoMapping == <<"unbound">>

\* the locals of labels() before its first statement
FreshLocals ==
    /\ pc = "line127"
    /\ res = "unbound"
    /\ index = NoIndex
    /\ batches = Unbound
    /\ i = Unbound
    /\ batch_query = Unbound
    /\ distances = Unbound
    /\ indices = Unbound
    /\ centroids = Unbound
    /\ query_labels = Unbound
    /\ raised = "none"
    /\ searches = 0
    /\ centroid_calls = 0

MapIdle ==
    /\ label_list = Unbound
    /\ label_dict = Unbound
    /\ label_to_category = NoMapping
    /\ mapped_list = Unbound

\* every argument of labels() but batch_size
ReferenceSets ==
    {rs \in [data : SeqsUpTo(Coords, 1, MaxRef), labels : SeqsUpTo(Labels, 1, MaxRef)] :
        Len(rs.data) = Len(rs.labels)}

BatchSizes == {None} \cup {Some(b) : b \in (0 - 1)..MaxQuery}

Init ==
    /\ \E rs \in ReferenceSets :
        /\ embedding_array_reference = rs.data
        /\ reference_labels = rs.labels
        /\ k \in 1..(Len(rs.data) + 1)
    /\ embedding_array_query \in SeqsUpTo(QueryCoords, 0, MaxQuery)
    /\ use_gpu \in BOOLEAN
    /\ batch_size \in BatchSizes
    /\ distance_metric \in Metrics
    /\ label_consensus \in Consensus
    /\ FreshLocals
    /\ todo = <<>>
    /\ returned = <<>>
    /\ MapIdle

\* lines 127-131
AcquireResources ==
    /\ pc = "line127"
    /\ res' = IF use_gpu THEN "StandardGpuResources" ELSE "None"
    /\ pc' = "line132"
    /\ UNCHANGED <<embedding_array_reference, embedding_array_query, reference_labels,
                   k, use_gpu, batch_size, distance_metric, label_consensus,
                   index, batches, i, batch_query, distances, indices,
                   centroids, query_labels, raised, searches, centroid_calls>>
    /\ UNCHANGED <<caller_vars, map_vars>>

MetricSupportedAny(metric) == TRUE

\* the branches of lines 132 and 134 that construct an index
MetricSupported(metric) == metric = "L2" \/ metric = "IP"

\* lines 132-135
CreateIndex ==
    /\ pc = "line132"
    /\ MetricSupported(distance_metric)
    /\ index' = [kind |-> IF use_gpu THEN "GpuIndexFlat" ELSE "IndexFlat",
                 metric |-> distance_metric,
                 vectors |-> <<>>]
    /\ pc' = "line138"
    /\ UNCHANGED <<embedding_array_reference, embedding_array_query, reference_labels,
                   k, use_gpu, batch_size, distance_metric, label_consensus,
                   res, batches, i, batch_query, distances, indices,
                   centroids, query_labels, raised, searches, centroid_calls>>
    /\ UNCHANGED <<caller_vars, map_vars>>

\* lines 136-137
RaiseInvalidMetric ==
    /\ pc = "line132"
    /\ ~MetricSupported(distance_metric)
    /\ raised' = "ValueError"
    /\ pc' = "raised"
    /\ UNCHANGED <<embedding_array_reference, embedding_array_query, reference_labels,
                   k, use_gpu, batch_size, distance_metric, label_consensus,
                   res, index, batches, i, batch_query, distances, indices,
                   centroids, query_labels, searches, centroid_calls>>
    /\ UNCHANGED <<caller_vars, map_vars>>

\* line 138
IndexAdd ==
    /\ pc = "line138"
    /\ index' = [index EXCEPT !.vectors = index.vectors \o embedding_array_reference]
    /\ pc' = "line139"
    /\ UNCHANGED <<embedding_array_reference, embedding_array_query, reference_labels,
                   k, use_gpu, batch_size, distance_metric, label_consensus,
                   res, batches, i, batch_query, distances, indices,
                   centroids, query_labels, raised, searches, centroid_calls>>
    /\ UNCHANGED <<caller_vars, map_vars>>

\* batch_size or num_query_points
BatchSizeOr(bs, num_query_points) ==
    IF bs = None THEN num_query_points
    ELSE IF bs[1] = 0 THEN num_query_points
    ELSE bs[1]

\* lines 139-142, range(0, num_query_points, batch_size) with a step other than 0
PrepareBatches ==
    /\ pc = "line139"
    /\ LET num_query_points == Len(embedding_array_query)
           step == BatchSizeOr(batch_size, num_query_points)
       IN  /\ step # 0
           /\ batch_size' = Some(step)
           /\ batches' = PyRangeFrom(0, num_query_points, step)
    /\ query_labels' = <<>>
    /\ pc' = "line142"
    /\ UNCHANGED <<embedding_array_reference, embedding_array_query, reference_labels,
                   k, use_gpu, distance_metric, label_consensus,
                   res, index, i, batch_query, distances, indices,
                   centroids, raised, searches, centroid_calls>>
    /\ UNCHANGED <<caller_vars, map_vars>>

\* lines 139-142, range() refusing a step of 0
RaiseZeroStep ==
    /\ pc = "line139"
    /\ LET num_query_points == Len(embedding_array_query)
           step == BatchSizeOr(batch_size, num_query_points)
       IN  /\ step = 0
           /\ batch_size' = Some(step)
    /\ query_labels' = <<>>
    /\ raised' = "ValueError"
    /\ pc' = "raised"
    /\ UNCHANGED <<embedding_array_reference, embedding_array_query, reference_labels,
                   k, use_gpu, distance_metric, label_consensus,
                   res, index, batches, i, batch_query, distances, indices,
                   centroids, searches, centroid_calls>>
    /\ UNCHANGED <<caller_vars, map_vars>>

BatchSliceOverlapping(arr, lo, n) == PySliceFrom(arr, lo, n + 1)

\* embedding_array_query[i:i + batch_size]
BatchSlice(arr, lo, n) == PySliceFrom(arr, lo, n)

\* lines 142-143: the next value of the range, and its slice of the query set
NextBatch ==
    /\ pc = "line142"
    /\ batches # <<>>
    /\ i' = Some(Head(batches))
    /\ batches' = Tail(batches)
    /\ batch_query' = BatchSlice(embedding_array_query, Head(batches), batch_size[1])
    /\ pc' = "line144"
    /\ UNCHANGED <<embedding_array_reference, embedding_array_query, reference_labels,
                   k, use_gpu, batch_size, distance_metric, label_consensus,
                   res, index, distances, indices,
                   centroids, query_labels, raised, searches, centroid_calls>>
    /\ UNCHANGED <<caller_vars, map_vars>>

\* line 144
Search ==
    /\ pc = "line144"
    /\ distances' = [q \in DOMAIN batch_query |-> SearchDistances(index, batch_query[q], k)]
    /\ indices' = [q \in DOMAIN batch_query |-> SearchIndices(index, batch_query[q], k)]
    /\ searches' = searches + 1
    /\ pc' = "line145"
    /\ UNCHANGED <<embedding_array_reference, embedding_array_query, reference_labels,
                   k, use_gpu, batch_size, distance_metric, label_consensus,
                   res, index, batches, i, batch_query,
                   centroids, query_labels, raised, centroid_calls>>
    /\ UNCHANGED <<caller_vars, map_vars>>

\* the branch lines 145-154 take
Branch(kk, consensus) ==
    IF kk > 1 /\ consensus = "majority_voting" THEN "majority_voting"
    ELSE IF kk > 1 /\ consensus = "weighted_voting" THEN "weighted_voting"
    ELSE IF consensus = "centroid_based" THEN "centroid_based"
    ELSE "nearest"

\* lines 145-146 and 155
MajorityVoting ==
    /\ pc = "line145"
    /\ Branch(k, label_consensus) = "majority_voting"
    /\ query_labels' = query_labels \o knn_majority_voting(indices, reference_labels)
    /\ pc' = "line142"
    /\ UNCHANGED <<embedding_array_reference, embedding_array_query, reference_labels,
                   k, use_gpu, batch_size, distance_metric, label_consensus,
                   res, index, batches, i, batch_query, distances, indices,
                   centroids, raised, searches, centroid_calls>>
    /\ UNCHANGED <<caller_vars, map_vars>>

\* lines 147-148 and 155
WeightedVoting ==
    /\ pc = "line145"
    /\ Branch(k, label_consensus) = "weighted_voting"
    /\ query_labels' = query_labels \o knn_weighted_voting(indices, distances, reference_labels)
    /\ pc' = "line142"
    /\ UNCHANGED <<embedding_array_reference, embedding_array_query, reference_labels,
                   k, use_gpu, batch_size, distance_metric, label_consensus,
                   res, index, batches, i, batch_query, distances, indices,
                   centroids, raised, searches, centroid_calls>>
    /\ UNCHANGED <<caller_vars, map_vars>>

CentroidsDueEveryBatch(ii) == TRUE

\* line 150
CentroidsDue(ii) == ii = Some(0)

\* lines 149-152 and 155
CentroidBased ==
    /\ pc = "line145"
    /\ Branch(k, label_consensus) = "centroid_based"
    /\ IF CentroidsDue(i)
       THEN /\ centroids' = calculate_centroids(embedding_array_reference, reference_labels)
            /\ centroid_calls' = centroid_calls + 1
       ELSE UNCHANGED <<centroids, centroid_calls>>
    /\ query_labels' = query_labels \o assign_labels_by_nearest_centroid(batch_query, centroids')
    /\ pc' = "line142"
    /\ UNCHANGED <<embedding_array_reference, embedding_array_query, reference_labels,
                   k, use_gpu, batch_size, distance_metric, label_consensus,
                   res, index, batches, i, batch_query, distances, indices,
                   raised, searches>>
    /\ UNCHANGED <<caller_vars, map_vars>>

NearestLabelsOfFirstReference(inds, ref_labels) ==
    [q \in DOMAIN inds |-> PyIndex(ref_labels, 0)]

\* [reference_labels[i[0]] for i in indices]
NearestLabels(inds, ref_labels) ==
    [q \in DOMAIN inds |-> PyIndex(ref_labels, inds[q][1])]

\* lines 153-155
NearestNeighbour ==
    /\ pc = "line145"
    /\ Branch(k, label_consensus) = "nearest"
    /\ query_labels' = query_labels \o NearestLabels(indices, reference_labels)
    /\ pc' = "line142"
    /\ UNCHANGED <<embedding_array_reference, embedding_array_query, reference_labels,
                   k, use_gpu, batch_size, distance_metric, label_consensus,
                   res, index, batches, i, batch_query, distances, indices,
                   centroids, raised, searches, centroid_calls>>
    /\ UNCHANGED <<caller_vars, map_vars>>

\* The code holds no statement that releases res.  When labels() returns, its
\* frame and with it the last references to index and res are discarded, and
\* the reference counting of CPython destroys the StandardGpuResources at once.
\* When labels() raises, the traceback of the exception keeps the frame, and
\* res with it, for as long as the exception lives.
AfterFrameDiscarded(r) == IF r = "StandardGpuResources" THEN "destroyed" ELSE r

\* lines 156-161: the range is exhausted
Return ==
    /\ pc = "line142"
    /\ batches = <<>>
    /\ res' = AfterFrameDiscarded(res)
    /\ pc' = "returned"
    /\ UNCHANGED <<embedding_array_reference, embedding_array_query, reference_labels,
                   k, use_gpu, batch_size, distance_metric, label_consensus,
                   index, batches, i, batch_query, distances, indices,
                   centroids, query_labels, raised, searches, centroid_calls>>
    /\ UNCHANGED <<caller_vars, map_vars>>

\* lines 138, 144 and 145-154: index.add, index.search or the consensus step
\* fails (device or host memory exhausted); nothing catches the exception
ComputationFailure ==
    /\ pc \in {"line138", "line144", "line145"}
    /\ raised' = "RuntimeError"
    /\ pc' = "raised"
    /\ UNCHANGED <<embedding_array_reference, embedding_array_query, reference_labels,
                   k, use_gpu, batch_size, distance_metric, label_consensus,
                   res, index, batches, i, batch_query, distances, indices,
                   centroids, query_labels, searches, centroid_calls>>
    /\ UNCHANGED <<caller_vars, map_vars>>

Next ==
    \/ AcquireResources
    \/ CreateIndex
    \/ RaiseInvalidMetric
    \/ IndexAdd
    \/ PrepareBatches
    \/ RaiseZeroStep
    \/ NextBatch
    \/ Search
    \/ MajorityVoting
    \/ WeightedVoting
    \/ CentroidBased
    \/ NearestNeighbour
    \/ Return
    \/ ComputationFailure

Spec == Init /\ [][Next]_vars

----------------------------------------------------------------------------
(* A caller that runs labels() on the same data with the whole query set as *)
(* one batch and then with batches of one point                             *)

InitTwice ==
    /\ \E rs \in ReferenceSets :
        /\ embedding_array_reference = rs.data
        /\ reference_labels = rs.labels
        /\ k \in 1..(Len(rs.data) + 1)
    /\ embedding_array_query \in SeqsUpTo(QueryCoords, 0, MaxQuery)
    /\ use_gpu \in BOOLEAN
    /\ distance_metric \in Metrics
    /\ label_consensus \in Consensus
    /\ batch_size = None
    /\ todo = <<Some(Len(embedding_array_query)), Some(1)>>
    /\ returned = <<>>
    /\ pc = "caller"
    /\ res = "unbound"
    /\ index = NoIndex
    /\ batches = Unbound
    /\ i = Unbound
    /\ batch_query = Unbound
    /\ distances = Unbound
    /\ indices = Unbound
    /\ centroids = Unbound
    /\ query_labels = Unbound
    /\ raised = "none"
    /\ searches = 0
    /\ centroid_calls = 0
    /\ MapIdle

\* lines 108-117: labels() is entered with the next batch_size
Call ==
    /\ pc = "caller"
    /\ todo # <<>>
    /\ batch_size' = Head(todo)
    /\ todo' = Tail(todo)
    /\ pc' = "line127"
    /\ res' = "unbound"
    /\ index' = NoIndex
    /\ batches' = Unbound
    /\ i' = Unbound
    /\ batch_query' = Unbound
    /\ distances' = Unbound
    /\ indices' = Unbound
    /\ centroids' = Unbound
    /\ query_labels' = Unbound
    /\ searches' = 0
    /\ centroid_calls' = 0
    /\ UNCHANGED <<embedding_array_reference, embedding_array_query, reference_labels,
                   k, use_gpu, distance_metric, label_consensus, raised, returned>>
    /\ UNCHANGED map_vars

\* line 161: the caller receives query_labels
Receive ==
    /\ pc = "returned"
    /\ returned' = Append(returned, query_labels)
    /\ pc' = "caller"
    /\ UNCHANGED <<embedding_array_reference, embedding_array_query, reference_labels,
                   k, use_gpu, batch_size, distance_metric, label_consensus,
                   res, index, batches, i, batch_query, distances, indices,
                   centroids, query_labels, raised, searches, centroid_calls, todo>>
    /\ UNCHANGED map_vars

NextTwice ==
    \/ Next
    \/ Call
    \/ Receive

SpecTwice == InitTwice /\ [][NextTwice]_vars

----------------------------------------------------------------------------
(* Properties of labels() *)

NumReference == Len(embedding_array_reference)
NumQuery == Len(embedding_array_query)

\* the reference label of the point's single nearest neighbour in the index
NearestNeighbourLabel(point) ==
    PyIndex(reference_labels, SearchIndices(index, point, 1)[1])

\* the label the selected consensus rule gives one query point on its own
PointLabel(point) ==
    LET branch == Branch(k, label_consensus)
    IN  IF branch = "majority_voting"
        THEN MajorityLabel(SearchIndices(index, point, k), reference_labels)
        ELSE IF branch = "weighted_voting"
        THEN WeightedLabel(SearchIndices(index, point, k),
                           SearchDistances(index, point, k), reference_labels)
        ELSE IF branch = "centroid_based"
        THEN ClosestLabel(point, calculate_centroids(embedding_array_reference, reference_labels))
        ELSE NearestNeighbourLabel(point)

\* C1 (as claimed): whenever labels() returns, the returned list has one entry
\* per query point and its j-th entry is the label of the j-th query point.
C1_OneLabelPerQueryPoint ==
    pc = "returned" =>
        /\ Len(query_labels) = NumQuery
        /\ \A j \in 1..NumQuery : query_labels[j] = PointLabel(embedding_array_query[j])

\* C2: with the same data, k, metric and one of the three consensus rules, the
\* call with the whole query set as one batch and the call with batch_size 1
\* return the same label sequence.
C2_OneBatchEqualsBatchesOfOne ==
    (/\ Len(returned) = 2
     /\ label_consensus \in {"majority_voting", "weighted_voting", "centroid_based"})
        => returned[1] = returned[2]

C2_Witness ==
    /\ Len(returned) = 2
    /\ label_consensus = "weighted_voting"
    /\ k = 2
    /\ Len(returned[2]) = 2
    /\ returned[2][1] # returned[2][2]

\* C3 (as claimed): when k = 1, under every consensus policy every returned
\* label is the reference label of the query point's single nearest neighbour.
C3_NearestAtK1AnyPolicy ==
    (pc = "returned" /\ k = 1) =>
        \A j \in 1..Min(Len(query_labels), NumQuery) :
            query_labels[j] = NearestNeighbourLabel(embedding_array_query[j])

\* C3 (amended): when k = 1, under every consensus policy other than
\* centroid_based every returned label is the reference label of the query
\* point's single nearest neighbour.
C3_NearestAtK1ExceptCentroid ==
    (pc = "returned" /\ k = 1 /\ label_consensus # "centroid_based") =>
        \A j \in 1..Min(Len(query_labels), NumQuery) :
            query_labels[j] = NearestNeighbourLabel(embedding_array_query[j])

C3_Witness ==
    /\ pc = "returned"
    /\ k = 1
    /\ label_consensus = "majority_voting"
    /\ NumReference = 2
    /\ Len(query_labels) = 2
    /\ query_labels[1] # query_labels[2]

\* C4 (as claimed): a call whose label_consensus is none of the recognised
\* names never returns a label sequence.
C4_UnknownConsensusNeverReturns ==
    label_consensus \notin {"majority_voting", "weighted_voting", "centroid_based"}
        => pc # "returned"

\* C5 (as claimed): a call with k outside 1..N runs no search and does not
\* return, and every neighbour position a search yields is one of 0..N-1.
C5_KOutOfRangeRejected ==
    /\ (k < 1 \/ k > NumReference) => (searches = 0 /\ pc # "returned")
    /\ \A q \in DOMAIN indices : \A j \in DOMAIN indices[q] :
            indices[q][j] \in 0..(NumReference - 1)

\* C6: a call with a distance_metric other than 'L2' and 'IP' adds no vector to
\* an index and runs no search, whatever use_gpu is, and the only way it ends is
\* the ValueError of line 137.
C6_InvalidMetricRaisesFirst ==
    distance_metric \notin {"L2", "IP"} =>
        /\ index.vectors = <<>>
        /\ searches = 0
        /\ pc \in {"line127", "line132", "raised"}
        /\ pc = "raised" => raised = "ValueError"
        /\ pc # "raised" => ENABLED Next

C6_Witness ==
    /\ distance_metric = "COSINE"
    /\ use_gpu
    /\ res = "StandardGpuResources"
    /\ pc = "raised"
    /\ raised = "ValueError"

\* C10 (as claimed): in a centroid_based call on a non-empty query set,
\* calculate_centroids has run exactly once by the time of the first search and
\* by the time the call returns.
C10_CentroidsBeforeFirstSearch ==
    (label_consensus = "centroid_based" /\ NumQuery > 0) =>
        /\ centroid_calls <= 1
        /\ searches >= 1 => centroid_calls = 1
        /\ pc = "returned" => centroid_calls = 1

\* C10 (amended): in a centroid_based call calculate_centroids runs at most
\* once, and exactly once in a call that processes a batch; it runs while the
\* first batch is processed, after that batch's search and before any label is
\* appended, and every batch is labelled with that one centroid map.
C10_CentroidsOnceInFirstBatch ==
    label_consensus = "centroid_based" =>
        /\ centroid_calls <= 1
        /\ centroid_calls = 1 <=> query_labels # <<>>
        /\ centroid_calls = 1 =>
            /\ searches >= 1
            /\ centroids = calculate_centroids(embedding_array_reference, reference_labels)
        /\ (pc = "returned" /\ searches >= 1) => centroid_calls = 1
        /\ (pc = "line145" /\ searches = 1) => centroid_calls = 0
        /\ \A j \in 1..Min(Len(query_labels), NumQuery) :
            query_labels[j] = ClosestLabel(embedding_array_query[j], centroids)

C10_Witness ==
    /\ label_consensus = "centroid_based"
    /\ pc = "returned"
    /\ searches = 2
    /\ centroid_calls = 1
    /\ Len(query_labels) = 2

GpuResourceHeld == res = "StandardGpuResources"

\* C11 (as claimed): with use_gpu true the acceleration resource is acquired
\* before the first search, and no call ends, by returning or by raising, with
\* the resource still held.
C11_ResourceReleasedOnEveryExit ==
    use_gpu =>
        /\ pc \in {"line144", "line145"} => GpuResourceHeld
        /\ pc \in {"returned", "raised"} => ~GpuResourceHeld

----------------------------------------------------------------------------
(* knn_majority_voting and knn_weighted_voting called on their own *)

MaxVoteK == 4
VoteReferenceLabels == {<<"A", "B", "C">>, <<"B", "A", "B">>}
VoteDistances == {0, 1, 2}

\* the variables of labels() that a direct call of a voting function leaves unused
NoLabelsCall ==
    /\ embedding_array_reference = Unbound
    /\ embedding_array_query = Unbound
    /\ k = 0
    /\ use_gpu = FALSE
    /\ batch_size = None
    /\ distance_metric = "unbound"
    /\ res = "unbound"
    /\ index = NoIndex
    /\ batches = Unbound
    /\ i = Unbound
    /\ batch_query = Unbound
    /\ centroids = Unbound
    /\ raised = "none"
    /\ searches = 0
    /\ centroid_calls = 0
    /\ todo = <<>>
    /\ returned = <<>>

InitVote ==
    /\ reference_labels \in VoteReferenceLabels
    /\ \E kk \in 1..MaxVoteK :
        /\ indices \in {<<ind>> : ind \in [1..kk -> 0..(Len(reference_labels) - 1)]}
        /\ \/ /\ label_consensus = "majority_voting"
              /\ distances = Unbound
           \/ /\ label_consensus = "weighted_voting"
              /\ distances \in {<<dist>> : dist \in [1..kk -> VoteDistances]}
    /\ query_labels = Unbound
    /\ pc = "vote"
    /\ NoLabelsCall
    /\ MapIdle

\* lines 16-22
VoteMajority ==
    /\ pc = "vote"
    /\ label_consensus = "majority_voting"
    /\ query_labels' = knn_majority_voting(indices, reference_labels)
    /\ pc' = "voted"
    /\ UNCHANGED <<embedding_array_reference, embedding_array_query, reference_labels,
                   k, use_gpu, batch_size, distance_metric, label_consensus,
                   res, index, batches, i, batch_query, distances, indices,
                   centroids, raised, searches, centroid_calls>>
    /\ UNCHANGED <<caller_vars, map_vars>>

\* lines 37-46
VoteWeighted ==
    /\ pc = "vote"
    /\ label_consensus = "weighted_voting"
    /\ query_labels' = knn_weighted_voting(indices, distances, reference_labels)
    /\ pc' = "voted"
    /\ UNCHANGED <<embedding_array_reference, embedding_array_query, reference_labels,
                   k, use_gpu, batch_size, distance_metric, label_consensus,
                   res, index, batches, i, batch_query, distances, indices,
                   centroids, raised, searches, centroid_calls>>
    /\ UNCHANGED <<caller_vars, map_vars>>

NextVote ==
    \/ VoteMajority
    \/ VoteWeighted

SpecVote == InitVote /\ [][NextVote]_vars

----------------------------------------------------------------------------
(* Properties of the voting functions *)

\* the labels of the neighbours of row q, nearest first
RowLabels(q) == NeighborLabels(indices[q], reference_labels)

CountIn(seq, n, label) == Cardinality({j \in 1..n : seq[j] = label})

MaxCount(seq) ==
    CHOOSE c \in 0..Len(seq) :
        /\ \E j \in DOMAIN seq : CountIn(seq, Len(seq), seq[j]) = c
        /\ \A j \in DOMAIN seq : CountIn(seq, Len(seq), seq[j]) <= c

Least(S) == CHOOSE j \in S : \A m \in S : j <= m

\* the label whose running count is the first to reach the maximal count
FirstToReachMaxCount(seq) ==
    seq[Least({j \in DOMAIN seq : CountIn(seq, j, seq[j]) = MaxCount(seq)})]

\* the label of maximal count that occurs first
FirstOccurringOfMaxCount(seq) ==
    seq[Least({j \in DOMAIN seq : CountIn(seq, Len(seq), seq[j]) = MaxCount(seq)})]

\* C8 (as claimed): knn_majority_voting returns a label of maximal count among
\* the neighbours, and among several such labels the one whose running count
\* reaches that maximum first in nearest-first order.
C8_FirstToReachMaxCountWins ==
    (pc = "voted" /\ label_consensus = "majority_voting") =>
        \A q \in DOMAIN indices : query_labels[q] = FirstToReachMaxCount(RowLabels(q))

\* C8 (amended): knn_majority_voting returns a label of maximal count among the
\* neighbours, and among several such labels the one that occurs first in
\* nearest-first order.
C8_FirstOccurringOfMaxCountWins ==
    (pc = "voted" /\ label_consensus = "majority_voting") =>
        /\ Len(query_labels) = Len(indices)
        /\ \A q \in DOMAIN indices :
            /\ CountIn(RowLabels(q), Len(RowLabels(q)), query_labels[q]) = MaxCount(RowLabels(q))
            /\ query_labels[q] = FirstOccurringOfMaxCount(RowLabels(q))

C8_Witness ==
    /\ pc = "voted"
    /\ label_consensus = "majority_voting"
    /\ RowLabels(1) = <<"A", "B", "B", "A">>
    /\ query_labels = <<"A">>

RECURSIVE TotalWeightFrom(_, _, _, _)
TotalWeightFrom(seq, dist, label, j) ==
    IF j > Len(seq) THEN 0
    ELSE (IF seq[j] = label THEN WeightScale \div (dist[j] + Epsilon) ELSE 0)
         + TotalWeightFrom(seq, dist, label, j + 1)

\* the sum of 1 / (distance + 1e-6) over the neighbours of row q that carry the label
TotalWeight(q, label) == TotalWeightFrom(RowLabels(q), distances[q], label, 1)

HeaviestPositions(q) ==
    {j \in DOMAIN RowLabels(q) :
        \A m \in DOMAIN RowLabels(q) :
            TotalWeight(q, RowLabels(q)[m]) <= TotalWeight(q, RowLabels(q)[j])}

\* C9: knn_weighted_voting returns, for a row of non-negative distances, the
\* label of the highest summed weight 1 / (distance + 1e-6), and among labels
\* of exactly the same highest sum the one that occurs first in nearest-first
\* order.
C9_HeaviestFirstOccurringWins ==
    (pc = "voted" /\ label_consensus = "weighted_voting") =>
        /\ Len(query_labels) = Len(indices)
        /\ \A q \in DOMAIN indices :
            query_labels[q] = RowLabels(q)[Least(HeaviestPositions(q))]

C9_Witness ==
    /\ pc = "voted"
    /\ label_consensus = "weighted_voting"
    /\ RowLabels(1) = <<"B", "A", "B">>
    /\ distances[1] = <<1, 0, 1>>
    /\ TotalWeight(1, "A") = TotalWeight(1, "B")
    /\ query_labels = <<"B">>

----------------------------------------------------------------------------
(* map_labels_to_categories *)

MaxList == 3
MaxValueLen == 2
Categories == {"Immune", "Stromal"}
MapLabels == {"B", "T", "NK"}

\* a value of label_dict: a list of labels, or a single label that is no list
DictValues ==
    {[islist |-> TRUE, labels |-> ls, label |-> "none"] :
        ls \in SeqsUpTo(MapLabels, 0, MaxValueLen)}
        \cup {[islist |-> FALSE, labels |-> <<>>, label |-> l] : l \in MapLabels}

\* label_dict: items in insertion order, no key twice
LabelDicts ==
    {d \in SeqsUpTo([key : Categories, val : DictValues], 0, Cardinality(Categories)) :
        \A a, b \in DOMAIN d : a # b => d[a].key # d[b].key}

InitMap ==
    /\ label_list \in SeqsUpTo(MapLabels, 0, MaxList)
    /\ label_dict \in LabelDicts
    /\ label_to_category = NoMapping
    /\ mapped_list = Unbound
    /\ pc = "line64"
    /\ reference_labels = Unbound
    /\ label_consensus = "unbound"
    /\ distances = Unbound
    /\ indices = Unbound
    /\ query_labels = Unbound
    /\ NoLabelsCall

\* mapping[key] = value : a new key goes last, an old one keeps its place
DictSet(mapping, key, value) ==
    IF HasKey(mapping, key)
    THEN [j \in DOMAIN mapping |->
            IF mapping[j].key = key THEN [key |-> key, val |-> value] ELSE mapping[j]]
    ELSE Append(mapping, [key |-> key, val |-> value])

\* mapping.get(key, default)
DictGet(mapping, key, default) ==
    IF HasKey(mapping, key)
    THEN mapping[CHOOSE j \in DOMAIN mapping : mapping[j].key = key].val
    ELSE default

LabelsOfListOnly(value) == IF value.islist THEN value.labels ELSE <<>>

\* lines 68-72: the labels one item of label_dict assigns to its category
LabelsOf(value) == IF value.islist THEN value.labels ELSE <<value.label>>

RECURSIVE AssignAll(_, _, _, _)
AssignAll(mapping, ls, j, category) ==
    IF j > Len(ls) THEN mapping
    ELSE AssignAll(DictSet(mapping, ls[j], category), ls, j + 1, category)

\* lines 67-72
RECURSIVE LabelToCategoryFrom(_, _, _)
LabelToCategoryFrom(dict, j, mapping) ==
    IF j > Len(dict) THEN mapping
    ELSE LabelToCategoryFrom(dict, j + 1,
            AssignAll(mapping, LabelsOf(dict[j].val), 1, dict[j].key))

\* lines 64-72
BuildMapping ==
    /\ pc = "line64"
    /\ label_to_category' = LabelToCategoryFrom(label_dict, 1, <<>>)
    /\ pc' = "line75"
    /\ UNCHANGED <<label_list, label_dict, mapped_list>>
    /\ UNCHANGED <<embedding_array_reference, embedding_array_query, reference_labels,
                   k, use_gpu, batch_size, distance_metric, label_consensus,
                   res, index, batches, i, batch_query, distances, indices,
                   centroids, query_labels, raised, searches, centroid_calls>>
    /\ UNCHANGED caller_vars

\* lines 75-77
MapList ==
    /\ pc = "line75"
    /\ mapped_list' = [j \in DOMAIN label_list |->
                            DictGet(label_to_category, label_list[j], "unknown")]
    /\ pc' = "mapped"
    /\ UNCHANGED <<label_list, label_dict, label_to_category>>
    /\ UNCHANGED <<embedding_array_reference, embedding_array_query, reference_labels,
                   k, use_gpu, batch_size, distance_metric, label_consensus,
                   res, index, batches, i, batch_query, distances, indices,
                   centroids, query_labels, raised, searches, centroid_calls>>
    /\ UNCHANGED caller_vars

NextMap ==
    \/ BuildMapping
    \/ MapList

SpecMap == InitMap /\ [][NextMap]_vars

\* the categories of label_dict whose value contains, or is, the label
CategoriesOf(label) ==
    {label_dict[a].key : a \in
        {b \in DOMAIN label_dict :
            IF label_dict[b].val.islist
            THEN \E j \in DOMAIN label_dict[b].val.labels : label_dict[b].val.labels[j] = label
            ELSE label_dict[b].val.label = label}}

\* C7: map_labels_to_categories returns a list as long as label_list whose j-th
\* entry is a category of label_dict that contains the j-th label, and is
\* "unknown" exactly when no category contains that label.
C7_CategoryOrUnknown ==
    pc = "mapped" =>
        /\ Len(mapped_list) = Len(label_list)
        /\ \A j \in DOMAIN label_list :
            /\ mapped_list[j] = "unknown" <=> CategoriesOf(label_list[j]) = {}
            /\ mapped_list[j] # "unknown" => mapped_list[j] \in CategoriesOf(label_list[j])

C7_Witness ==
    /\ pc = "mapped"
    /\ label_dict = <<[key |-> "Immune", val |-> [islist |-> TRUE, labels |-> <<"B", "T">>, label |-> "none"]]>>
    /\ label_list = <<"T", "B", "NK">>
    /\ mapped_list = <<"Immune", "Immune", "unknown">>

====
